---- MODULE Spec2Model ----
(***************************************************************************)
(* koishi-plugin-music-player-ncm: the ncmget command, the selection       *)
(* middleware, the session timers and handleSongRequest with its cache     *)
(* sweep, as a state machine.  Every `await` of the source is one step of  *)
(* a task: the step is the awaited operation's effect followed by the      *)
(* synchronous code up to the next `await`.                                *)
(***************************************************************************)
EXTENDS Integers, Sequences, FiniteSets, TLC

\* ---- bounds of the model ----
NumProcs == 2
NumIds == 3
NumKeys == 2
MaxFileSize == 3
MaxTime == 3
MaxTimers == 2
MaxCommands == 3
MaxIdLen == 3
\* how far Date.now() is followed where the limiter's entries grow old
MaxLate == 21
\* ---- configured values (fields of the Config schema); the unit of
\* cacheMaxSize is one unit of fileSize, the unit of searchTimeout one Tick ----
cacheMaxSize == 2
searchTimeout == 1
searchPageSize == 2
rateLimitInterval == 2
\* Date.now() when the plugin starts, in Ticks since 1970: more than any interval
Epoch == 10

Procs == 1..NumProcs
Ids == 1..NumIds
Keys == 1..NumKeys
\* the one requester of the specifications that follow a single requester
Solo == {1}
\* the channels (or, in a private chat, the users) messages come from
Channels == 1..NumKeys
\* the keys of rateLimitMap: 0 is 'global', c is `${platform}:${channel c}`
LimiterKeys == 0..NumKeys
Sizes == 1..MaxFileSize
TimerIds == 1..MaxTimers
\* what ncm.searchMusic may resolve to: up to searchPageSize distinct candidates
ResultLists == {r \in UNION {[1..n -> Ids] : n \in 0..searchPageSize} :
                    \A a, b \in DOMAIN r : a # b => r[a] # r[b]}
\* the trimmed text of a message, as its characters
ReplyInputs == {<<>>, <<"a">>, <<"0">>, <<"1">>, <<"2">>, <<"3">>, <<"0", "0">>, <<"0", "2">>, <<"1", "a">>}

VARIABLES
    now,            \* Date.now()
    cacheTable,     \* the ncm_cache table, one row per id (exists = row present)
    blobs,          \* ids whose blob file <cachePath>/<id>.mp3 is on disk
    downloadLocks,  \* const downloadLocks = new Set<string>()
    searchSessions, \* const searchSessions = new Map<string, SearchSession>()
    timers,         \* pending setTimeout callbacks: [id, key, due]
    disposed,       \* the dispose handler has run
    task,           \* the async invocations in flight, one record per slot
    issued,         \* how many ncmget commands have been accepted
    lastServed,     \* per id, the time of its last download (as stamped) or serve from the cache
    config,         \* config.rateLimitEnabled, config.rateLimitGlobal
    channelId,      \* per requester, session.channelId || session.userId
    rateLimitMap,   \* const rateLimitMap = new Map<string, number>(); 0 = no entry
    lastAccepted,   \* per limiter key, the time of the last command let through; -1 = none
    idText,         \* per track, String(song.id) as its characters
    tempFiles,      \* ids whose <cachePath>/<id>_compressed.mp3 is on disk
    wire,           \* one request through weapi, the remote and the response handling
    last            \* what the most recent command/middleware/timer step returned

vars == <<now, cacheTable, blobs, downloadLocks, searchSessions, timers, disposed, task, issued, lastServed,
          config, channelId, rateLimitMap, lastAccepted, idText, tempFiles, wire, last>>

NoRow == [exists |-> FALSE, cached |-> FALSE, cachePath |-> FALSE, fileSize |-> 0, cacheTime |-> 0]
NoSession == [results |-> <<>>, timeout |-> 0]
NoEvent == [op |-> "none", key |-> 0, input |-> <<>>, song |-> 0, outcome |-> "none",
            cacheEntry |-> "none", faulted |-> FALSE, held |-> FALSE, count |-> -1]

IdleTask == [pc |-> "idle", key |-> 0, song |-> 0, results |-> <<>>, cacheEntry |-> "none",
             size |-> 0, currentSize |-> 0, caches |-> <<>>, evicted |-> <<>>,
             freedSpace |-> 0, sweep |-> "none", cacheTime |-> 0, urlInfo |-> "none",
             savePath |-> <<>>, compress |-> FALSE, compressedPath |-> FALSE, faulted |-> FALSE]

\* what JSON.parse hands back for a text that is not the JSON of a request payload
NoParams == [s |-> <<"?">>, t |-> 0]

NoWire == [stage |-> "none", params |-> NoParams, secKey |-> <<>>, body |-> <<>>,
           response |-> [isText |-> TRUE, text |-> <<>>, object |-> NoParams],
           decoded |-> NoParams]

Free(p) == task[p].pc = "idle"

\* a new invocation takes the first free slot
FirstFree(p) == Free(p) /\ \A q \in Procs : Free(q) => p <= q

\* ---------------------------------------------------------------------------
\* pure helpers

RECURSIVE SumSizes(_, _)
SumSizes(table, S) ==
    IF S = {} THEN 0
    ELSE LET i == CHOOSE x \in S : TRUE
         IN (IF table[i].exists /\ table[i].cached THEN table[i].fileSize ELSE 0)
            + SumSizes(table, S \ {i})

\* getCacheTotalSize: sum of fileSize over the rows with cached = true
TotalSize(table) == SumSizes(table, Ids)

CachedIds(table) == {i \in Ids : table[i].exists /\ table[i].cached}

\* the orders in which database.get may hand back the rows of a set of ids
Orders(S) == {s \in [1..Cardinality(S) -> S] : \A a, b \in 1..Cardinality(S) : a # b => s[a] # s[b]}

RowsOf(table, ord) == [n \in 1..Len(ord) |-> [id |-> ord[n], fileSize |-> table[ord[n]].fileSize,
                                              cacheTime |-> table[ord[n]].cacheTime]]

RECURSIVE InsertBy(_, _)
InsertBy(c, s) ==
    IF s = <<>> THEN <<c>>
    ELSE IF c.cacheTime < Head(s).cacheTime THEN <<c>> \o s
    ELSE <<Head(s)>> \o InsertBy(c, Tail(s))

\* the rows in the order the database handed them back
Unsorted(s) == s

RECURSIVE SortByCacheTime(_)
\* caches.sort((a, b) => (a.cacheTime || 0) - (b.cacheTime || 0)): stable, ascending
SortByCacheTime(s) ==
    IF s = <<>> THEN <<>>
    ELSE LET n == Len(s) IN InsertBy(s[n], SortByCacheTime(SubSeq(s, 1, n - 1)))

\* the finally block forgotten
KeepLock(locks, id) == locks

\* line 406: downloadLocks.delete(sanitizedId)
ReleaseLock(locks, id) == locks \ {id}

Digits == {"0", "1", "2", "3"}

\* /^\d+$/.test(input), with !input for the empty text
IsNumeric(input) == input # <<>> /\ \A n \in DOMAIN input : input[n] \in Digits

DigitValue(c) == CASE c = "0" -> 0 [] c = "1" -> 1 [] c = "2" -> 2 [] OTHER -> 3

RECURSIVE ParseInt(_)
\* parseInt(input) of a text of decimal digits
ParseInt(input) ==
    IF input = <<>> THEN 0
    ELSE LET n == Len(input) IN 10 * ParseInt(SubSeq(input, 1, n - 1)) + DigitValue(input[n])

\* the characters of the decimal digits, and String(i) of a track number below 10
DigitChars == <<"0", "1", "2", "3", "4", "5", "6", "7", "8", "9">>
IdString(i) == <<DigitChars[i + 1]>>

\* the characters a track id is made of here: letters, digits and '-', which
\* /[^a-zA-Z0-9-]/ keeps, and '/', '.', '_', which it removes
SafeChars == {"a", "Z", "7", "-"} \cup {DigitChars[n] : n \in DOMAIN DigitChars}
IdChars == {"a", "Z", "7", "-", "/", ".", "_"}
RawIds == UNION {[1..n -> IdChars] : n \in 0..MaxIdLen}

\* the id used as it came
Unsanitized(id) == id

\* line 363: String(song.id).replace(/[^a-zA-Z0-9-]/g, '')
Sanitize(id) == SelectSeq(id, LAMBDA c : c \in SafeChars)

\* a path as the list of its segments: the text split at every '/'
RECURSIVE Split(_)
Split(s) ==
    IF s = <<>> THEN << <<>> >>
    ELSE LET rest == Split(Tail(s))
         IN IF Head(s) = "/" THEN << <<>> >> \o rest
            ELSE << <<Head(s)>> \o Head(rest) >> \o Tail(rest)

\* path normalisation: empty and '.' segments dropped, '..' removing the
\* segment before it
RECURSIVE Normalize(_, _)
Normalize(segs, acc) ==
    IF segs = <<>> THEN acc
    ELSE LET g == Head(segs)
         IN Normalize(Tail(segs),
                      IF g = <<>> \/ g = <<".">> THEN acc
                      ELSE IF g = <<".", ".">>
                           THEN (IF acc = <<>> THEN acc ELSE SubSeq(acc, 1, Len(acc) - 1))
                           ELSE Append(acc, g))

\* path.resolve(root, rel) for an absolute root: an absolute rel replaces it
Resolve(root, rel) ==
    IF rel # <<>> /\ Head(rel) = "/" THEN Normalize(Split(rel), <<>>)
    ELSE Normalize(Split(rel), root)

\* the text of an absolute path
RECURSIVE PathText(_)
PathText(segs) == IF segs = <<>> THEN <<>> ELSE <<"/">> \o Head(segs) \o PathText(Tail(segs))

\* String.prototype.startsWith
StartsWith(s, pre) == Len(pre) <= Len(s) /\ SubSeq(s, 1, Len(pre)) = pre

\* path.resolve(config.cachePath), as segments
CacheRoot == << <<"d">> >>
Mp3 == <<".", "m", "p", "3">>

\* where a task is between downloadLocks.add (line 383) and the finally block
LockedPcs == {"total", "list", "unlink", "set", "download", "commit", "sendNew", "catch"}

\* what a task that ends reports: the message it sent last, for which song,
\* whether it had cleared a stale row, whether some call of it had failed,
\* whether it had added its id to downloadLocks
Ended(t, out, flt) ==
    [NoEvent EXCEPT !.op = "ended", !.key = t.key, !.song = t.song, !.outcome = out,
                    !.cacheEntry = t.cacheEntry, !.faulted = flt, !.held = t.pc \in LockedPcs]

\* the task in slot p goes on as nt, or ends with the event nt
Continue(p, nt) ==
    IF "pc" \in DOMAIN nt
    THEN task' = [task EXCEPT ![p] = nt] /\ last' = NoEvent
    ELSE task' = [task EXCEPT ![p] = IdleTask] /\ last' = nt

\* handleSongRequest(session, song, ...) is entered: the database.get of line 343 is pending
Dispatch(k, id) == [IdleTask EXCEPT !.pc = "lookup", !.key = k, !.song = id]

\* ---------------------------------------------------------------------------
\* handleSongRequest, one action per await

\* line 343: const cache = await ctx.database.get('ncm_cache', { id: song.id })
Lookup(p) ==
    /\ task[p].pc = "lookup"
    /\ \E ok \in BOOLEAN :
        LET t == task[p]
            row == cacheTable[t.song]
        IN Continue(p, IF ~ok THEN Ended(t, "error", TRUE)
                       ELSE IF row.exists /\ row.cached /\ row.cachePath
                            THEN [t EXCEPT !.pc = "access", !.cacheEntry = "row"]
                            ELSE [t EXCEPT !.pc = "getSongUrl",
                                           !.cacheEntry = IF row.exists THEN "row" ELSE "none"])
    /\ UNCHANGED <<now, cacheTable, blobs, downloadLocks, searchSessions, timers, disposed, issued, lastServed, config, channelId, rateLimitMap, lastAccepted, idText, tempFiles, wire>>

\* where sendCachedSong starts: with compress (and ctx.ffmpeg, line 422) at the
\* 'compressing' notice, else at the delivery
SendEntry(t, plain) == IF t.compress THEN "zCompressing" ELSE plain

\* line 348: await fs.access(cacheEntry.cachePath)
Access(p) ==
    /\ task[p].pc = "access"
    /\ Continue(p, [task[p] EXCEPT !.pc = IF task[p].song \in blobs THEN SendEntry(task[p], "sendCached")
                                           ELSE "invalidate"])
    /\ UNCHANGED <<now, cacheTable, blobs, downloadLocks, searchSessions, timers, disposed, issued, lastServed, config, channelId, rateLimitMap, lastAccepted, idText, tempFiles, wire>>

\* line 349: await sendCachedSong(...) on the hit path; an exception it lets out
\* (its own error message could not be sent) lands in the catch of line 351
SendCached(p) ==
    /\ task[p].pc = "sendCached"
    /\ \E r \in {"sent", "send-error", "throw"} :
        LET t == task[p] IN
        /\ r = "sent" => t.song \in blobs
        /\ Continue(p, CASE r = "sent" -> Ended(t, "hit", t.faulted)
                         [] r = "send-error" -> Ended(t, "send-error", TRUE)
                         [] OTHER -> [t EXCEPT !.pc = "invalidate", !.faulted = TRUE])
        /\ lastServed' = IF r = "sent" THEN [lastServed EXCEPT ![t.song] = now] ELSE lastServed
    /\ UNCHANGED <<now, cacheTable, blobs, downloadLocks, searchSessions, timers, disposed, issued, config, channelId, rateLimitMap, lastAccepted, idText, tempFiles, wire>>

\* lines 352-353: database.set(cached: false, cachePath: null); cacheEntry = undefined
Invalidate(p) ==
    /\ task[p].pc = "invalidate"
    /\ \E ok \in BOOLEAN :
        LET t == task[p] IN
        IF ok
        THEN /\ cacheTable' = [cacheTable EXCEPT ![t.song].cached = FALSE, ![t.song].cachePath = FALSE]
             /\ Continue(p, [t EXCEPT !.pc = "getSongUrl", !.cacheEntry = "cleared"])
        ELSE /\ Continue(p, Ended(t, "error", TRUE))
             /\ UNCHANGED cacheTable
    /\ UNCHANGED <<now, blobs, downloadLocks, searchSessions, timers, disposed, issued, lastServed, config, channelId, rateLimitMap, lastAccepted, idText, tempFiles, wire>>

\* lines 357-382: getSongUrl, then the id, lock and path checks up to the
\* 'downloading' message being handed to session.send
\* the answer used without the test of line 358
UrlUnchecked(t, r, size) ==
    IF r = "throw" THEN Ended(t, "error", TRUE)
    ELSE [t EXCEPT !.pc = "notify", !.size = size, !.urlInfo = r]

\* the lock set never looked at
NeverBusy(t) == FALSE

\* line 370: downloadLocks.has(sanitizedId)
Busy(t) == t.song \in downloadLocks

\* lines 357-380: what handleSongRequest does with the answer r of getSongUrl:
\* the url test, the id test, the lock test and the path test. An id or a path
\* that fails its test ends the acquire with 'download-error' (outcome "invalid")
UrlChecked(t, r, size) ==
    LET sanitizedId == Sanitize(idText[t.song])
        savePath == PathText(Resolve(CacheRoot, sanitizedId \o Mp3))
    IN CASE r = "throw" -> Ended(t, "error", TRUE)
         [] r = "null" -> Ended(t, "unavailable", t.faulted)
         [] OTHER ->
              IF sanitizedId = <<>> THEN Ended(t, "invalid", t.faulted)
              ELSE IF Busy(t) THEN Ended(t, "busy", t.faulted)
              ELSE IF ~StartsWith(savePath, PathText(CacheRoot)) THEN Ended(t, "invalid", t.faulted)
              ELSE [t EXCEPT !.pc = "notify", !.size = size, !.urlInfo = r, !.savePath = savePath]

GetSongUrl(p, answers) ==
    /\ task[p].pc = "getSongUrl"
    /\ \E r \in answers, size \in Sizes :
        /\ r # "url" => size = 1
        /\ Continue(p, UrlChecked(task[p], r, size))
    /\ UNCHANGED <<now, cacheTable, blobs, downloadLocks, searchSessions, timers, disposed, issued, lastServed, config, channelId, rateLimitMap, lastAccepted, idText, tempFiles, wire>>

\* lines 382-386: the 'downloading' message is sent, then downloadLocks.add and
\* cleanOldCache is entered (getCacheTotalSize's database.get pending)
Notify(p) ==
    /\ task[p].pc = "notify"
    /\ \E ok \in BOOLEAN :
        LET t == task[p] IN
        IF ok
        THEN /\ downloadLocks' = downloadLocks \cup {t.song}
             /\ Continue(p, [t EXCEPT !.pc = "total"])
        ELSE /\ Continue(p, Ended(t, "error", TRUE))
             /\ UNCHANGED downloadLocks
    /\ UNCHANGED <<now, cacheTable, blobs, searchSessions, timers, disposed, issued, lastServed, config, channelId, rateLimitMap, lastAccepted, idText, tempFiles, wire>>

\* the loop left at once, whatever the sizes
SweepStops(t) == [t EXCEPT !.pc = "download", !.sweep = IF @ = "failed" THEN "failed" ELSE "swept"]

\* the loop without its break: every row of the list is evicted
SweepAll(t) ==
    IF t.caches = <<>>
    THEN [t EXCEPT !.pc = "download", !.sweep = IF @ = "failed" THEN "failed" ELSE "swept"]
    ELSE [t EXCEPT !.pc = "unlink"]

\* the head of the for loop of cleanOldCache (lines 226-227) and its exit
SweepNext(t) ==
    IF t.caches = <<>> \/ t.currentSize - t.freedSpace + t.size <= cacheMaxSize
    THEN [t EXCEPT !.pc = "download", !.sweep = IF @ = "failed" THEN "failed" ELSE "swept"]
    ELSE [t EXCEPT !.pc = "unlink"]

\* lines 208-220: getCacheTotalSize (0 when the read fails) and the early return
GetCacheTotalSize(p) ==
    /\ task[p].pc = "total"
    /\ \E ok \in BOOLEAN :
        LET t == task[p]
            cur == IF ok THEN TotalSize(cacheTable) ELSE 0
        IN Continue(p, IF cur + t.size <= cacheMaxSize
                       THEN [t EXCEPT !.pc = "download", !.sweep = IF ok THEN "noop" ELSE "failed",
                                      !.faulted = @ \/ ~ok]
                       ELSE [t EXCEPT !.pc = "list", !.currentSize = cur,
                                      !.sweep = IF ok THEN "none" ELSE "failed",
                                      !.faulted = @ \/ ~ok])
    /\ UNCHANGED <<now, cacheTable, blobs, downloadLocks, searchSessions, timers, disposed, issued, lastServed, config, channelId, rateLimitMap, lastAccepted, idText, tempFiles, wire>>

\* lines 222-225: the cached rows are read and sorted by cacheTime
CleanList(p) ==
    /\ task[p].pc = "list"
    /\ \E ok \in BOOLEAN :
        LET t == task[p] IN
        IF ok
        THEN \E ord \in Orders(CachedIds(cacheTable)) :
                Continue(p, SweepNext([t EXCEPT !.caches = SortByCacheTime(RowsOf(cacheTable, ord))]))
        ELSE Continue(p, [t EXCEPT !.pc = "catch", !.faulted = TRUE])
    /\ UNCHANGED <<now, cacheTable, blobs, downloadLocks, searchSessions, timers, disposed, issued, lastServed, config, channelId, rateLimitMap, lastAccepted, idText, tempFiles, wire>>

\* the row that could not be deleted counted as freed all the same
SkippedCounted(t) ==
    [t EXCEPT !.caches = Tail(@), !.sweep = "failed", !.faulted = TRUE,
              !.freedSpace = @ + Head(t.caches).fileSize]

\* lines 234-236: the catch inside the loop logs the failure; the row is done
\* with, freedSpace is as it was
Skipped(t) == [t EXCEPT !.caches = Tail(@), !.sweep = "failed", !.faulted = TRUE]

\* line 229: await fs.unlink(cache.cachePath); a failure is logged (line 235) and
\* the loop goes on with the next row
CleanUnlink(p) ==
    /\ task[p].pc = "unlink"
    /\ \E ok \in BOOLEAN :
        LET t == task[p]
            c == Head(t.caches)
        IN IF ok /\ c.id \in blobs
           THEN /\ blobs' = blobs \ {c.id}
                /\ Continue(p, [t EXCEPT !.pc = "set"])
           ELSE /\ Continue(p, SweepNext(Skipped(t)))
                /\ UNCHANGED blobs
    /\ UNCHANGED <<now, cacheTable, downloadLocks, searchSessions, timers, disposed, issued, lastServed, config, channelId, rateLimitMap, lastAccepted, idText, tempFiles, wire>>

\* the path left in the row
EvictedKeepsPath(row) == [row EXCEPT !.cached = FALSE, !.fileSize = 0]

\* lines 230-232: the row after database.set(cached: false, cachePath: null, fileSize: 0)
Evicted(row) == [row EXCEPT !.cached = FALSE, !.cachePath = FALSE, !.fileSize = 0]

\* lines 230-233: database.set(cached: false, cachePath: null, fileSize: 0), freedSpace += fileSize
CleanSet(p) ==
    /\ task[p].pc = "set"
    /\ \E ok \in BOOLEAN :
        LET t == task[p]
            c == Head(t.caches)
        IN IF ok
           THEN /\ cacheTable' = [cacheTable EXCEPT ![c.id] = Evicted(@)]
                /\ Continue(p, SweepNext([t EXCEPT !.caches = Tail(@), !.evicted = Append(@, c),
                                                   !.freedSpace = @ + c.fileSize]))
           ELSE /\ Continue(p, SweepNext(Skipped(t)))
                /\ UNCHANGED cacheTable
    /\ UNCHANGED <<now, blobs, downloadLocks, searchSessions, timers, disposed, issued, lastServed, config, channelId, rateLimitMap, lastAccepted, idText, tempFiles, wire>>

\* lines 387-392: await ncm.downloadSong(urlInfo.url, savePath) writes the blob;
\* cacheData is built with cacheTime: Date.now() before the row is written
DownloadSong(p) ==
    /\ task[p].pc = "download"
    /\ \E ok \in BOOLEAN :
        LET t == [task[p] EXCEPT !.currentSize = 0, !.caches = <<>>, !.evicted = <<>>,
                                 !.freedSpace = 0, !.sweep = "none"]
        IN IF ok
           THEN /\ blobs' = blobs \cup {t.song}
                /\ Continue(p, [t EXCEPT !.pc = "commit", !.cacheTime = now])
           ELSE /\ Continue(p, [t EXCEPT !.pc = "catch", !.faulted = TRUE])
                /\ UNCHANGED blobs
    /\ UNCHANGED <<now, cacheTable, downloadLocks, searchSessions, timers, disposed, issued, lastServed, config, channelId, rateLimitMap, lastAccepted, idText, tempFiles, wire>>

\* lines 395-399: database.set when cacheEntry is set, database.create otherwise;
\* create rejects an id the table already holds
WriteRow(table, entry, id, cacheData) ==
    IF entry = "row" THEN [ok |-> TRUE, table |-> [table EXCEPT ![id] = cacheData]]
    ELSE IF table[id].exists THEN [ok |-> FALSE, table |-> table]
    ELSE [ok |-> TRUE, table |-> [table EXCEPT ![id] = cacheData]]

\* lines 395-399: the commit of a download
Commit(p) ==
    /\ task[p].pc = "commit"
    /\ \E ok \in BOOLEAN :
        LET t == task[p]
            cacheData == [exists |-> TRUE, cached |-> TRUE, cachePath |-> TRUE,
                          fileSize |-> t.size, cacheTime |-> t.cacheTime]
            written == WriteRow(cacheTable, t.cacheEntry, t.song, cacheData)
        IN IF ok /\ written.ok
           THEN /\ cacheTable' = written.table
                /\ lastServed' = [lastServed EXCEPT ![t.song] = t.cacheTime]
                /\ Continue(p, [t EXCEPT !.pc = SendEntry(t, "sendNew"), !.cacheTime = 0])
           ELSE /\ Continue(p, [t EXCEPT !.pc = "catch", !.faulted = @ \/ ~ok])
                /\ UNCHANGED <<cacheTable, lastServed>>
    /\ UNCHANGED <<now, blobs, downloadLocks, searchSessions, timers, disposed, issued, config, channelId, rateLimitMap, lastAccepted, idText, tempFiles, wire>>

\* lines 401, 405-407: sendCachedSong after the commit, then the finally block
SendNew(p) ==
    /\ task[p].pc = "sendNew"
    /\ \E r \in {"sent", "send-error", "throw"} :
        LET t == task[p] IN
        /\ r = "sent" => t.song \in blobs
        /\ IF r = "throw"
           THEN /\ Continue(p, [t EXCEPT !.pc = "catch", !.faulted = TRUE])
                /\ UNCHANGED downloadLocks
           ELSE /\ Continue(p, IF r = "sent" THEN Ended(t, "delivered", t.faulted)
                               ELSE Ended(t, "send-error", TRUE))
                /\ downloadLocks' = ReleaseLock(downloadLocks, t.song)
    /\ UNCHANGED <<now, cacheTable, blobs, searchSessions, timers, disposed, issued, lastServed, config, channelId, rateLimitMap, lastAccepted, idText, tempFiles, wire>>

\* ---- sendCachedSong with compress, one action per await (lines 414-462) ----

ZPcs == {"zCompressing", "zCompress", "zCompressError", "zRead", "zDeliver", "zSendError"}

\* the caller of sendCachedSong is the download path (line 401), not the hit path
AfterDownload(t) == t.urlInfo = "url"

\* lines 438-443: with OneBot the file is read for base64, else its url is sent
AfterCompress(p, t) ==
    \E hasOneBot \in BOOLEAN : Continue(p, [t EXCEPT !.pc = IF hasOneBot THEN "zRead" ELSE "zDeliver"])

\* sendCachedSong returns (r = "sent", "send-error") or throws; back in
\* handleSongRequest: line 350 or the catch of line 351 on the hit path, the
\* finally block or the catch of line 402 on the download path
Return(p, t, r) ==
    LET done == [Ended(t, IF r = "sent" THEN (IF AfterDownload(t) THEN "delivered" ELSE "hit")
                          ELSE "send-error", t.faulted \/ r # "sent")
                 EXCEPT !.held = AfterDownload(t)]
    IN /\ Continue(p, CASE r # "throw" -> done
                        [] AfterDownload(t) -> [t EXCEPT !.pc = "catch", !.faulted = TRUE]
                        [] OTHER -> [t EXCEPT !.pc = "invalidate", !.faulted = TRUE])
       /\ downloadLocks' = IF r # "throw" /\ AfterDownload(t)
                           THEN ReleaseLock(downloadLocks, t.song) ELSE downloadLocks
       /\ lastServed' = IF r = "sent" /\ ~AfterDownload(t)
                        THEN [lastServed EXCEPT ![t.song] = now] ELSE lastServed

\* line 424: await session.send('compressing'); line 425 sets compressedPath
ZCompressing(p) ==
    /\ task[p].pc = "zCompressing"
    /\ \E ok \in BOOLEAN :
        Continue(p, IF ok THEN [task[p] EXCEPT !.pc = "zCompress", !.compressedPath = TRUE]
                    ELSE [task[p] EXCEPT !.pc = "zCompressError", !.faulted = TRUE])
    /\ UNCHANGED <<now, cacheTable, blobs, searchSessions, timers, disposed, issued, config, channelId, rateLimitMap, lastAccepted, idText, downloadLocks, lastServed, tempFiles, wire>>

\* line 429: await compressAudio(cache.cachePath, compressedPath): ffmpeg writes
\* the whole output, or fails having written a part of it or nothing
ZCompress(p) ==
    /\ task[p].pc = "zCompress"
    /\ \E r \in {"ok", "partial", "none"} :
        /\ tempFiles' = IF r = "none" THEN tempFiles ELSE tempFiles \cup {task[p].song}
        /\ IF r = "ok" THEN AfterCompress(p, task[p])
           ELSE Continue(p, [task[p] EXCEPT !.pc = "zCompressError", !.faulted = TRUE])
    /\ UNCHANGED <<now, cacheTable, blobs, searchSessions, timers, disposed, issued, config, channelId, rateLimitMap, lastAccepted, idText, downloadLocks, lastServed, wire>>

\* lines 431-435: the catch sends 'compress-error' and forgets compressedPath;
\* when that send fails the outer catch (line 458) takes over
ZCompressError(p) ==
    /\ task[p].pc = "zCompressError"
    /\ \E ok \in BOOLEAN :
        IF ok THEN AfterCompress(p, [task[p] EXCEPT !.compressedPath = FALSE])
        ELSE Continue(p, [task[p] EXCEPT !.pc = "zSendError"])
    /\ UNCHANGED <<now, cacheTable, blobs, searchSessions, timers, disposed, issued, config, channelId, rateLimitMap, lastAccepted, idText, downloadLocks, lastServed, tempFiles, wire>>

\* line 442: await fs.readFile(filePath), filePath being compressedPath when set
ZRead(p) ==
    /\ task[p].pc = "zRead"
    /\ \E ok \in BOOLEAN :
        LET t == task[p] IN
        /\ ok => IF t.compressedPath THEN t.song \in tempFiles ELSE t.song \in blobs
        /\ Continue(p, [t EXCEPT !.pc = IF ok THEN "zDeliver" ELSE "zSendError",
                                  !.faulted = @ \/ ~ok])
    /\ UNCHANGED <<now, cacheTable, blobs, searchSessions, timers, disposed, issued, config, channelId, rateLimitMap, lastAccepted, idText, downloadLocks, lastServed, tempFiles, wire>>

\* lines 447-457: the delivery, then the finally block: fs.unlink(compressedPath)
\* is issued when compressedPath is set (its result is ignored)
ZDeliver(p) ==
    /\ task[p].pc = "zDeliver"
    /\ \E ok \in BOOLEAN :
        LET t == task[p] IN
        /\ tempFiles' = IF t.compressedPath THEN tempFiles \ {t.song} ELSE tempFiles
        /\ IF ok THEN Return(p, t, "sent")
           ELSE /\ Continue(p, [t EXCEPT !.pc = "zSendError", !.faulted = TRUE])
                /\ UNCHANGED <<downloadLocks, lastServed>>
    /\ UNCHANGED <<now, cacheTable, blobs, searchSessions, timers, disposed, issued, config, channelId, rateLimitMap, lastAccepted, idText, wire>>

\* lines 458-461: the outer catch sends 'send-error'
ZSendError(p) ==
    /\ task[p].pc = "zSendError"
    /\ \E ok \in BOOLEAN : Return(p, task[p], IF ok THEN "send-error" ELSE "throw")
    /\ UNCHANGED <<now, cacheTable, blobs, searchSessions, timers, disposed, issued, config, channelId, rateLimitMap, lastAccepted, idText, tempFiles, wire>>

\* the steps of sendCachedSong with compress
SendCompressed(p) ==
    \/ ZCompressing(p)
    \/ ZCompress(p)
    \/ ZCompressError(p)
    \/ ZRead(p)
    \/ ZDeliver(p)
    \/ ZSendError(p)

\* the failure swallowed: the requester is told the track was delivered
CaughtSilently(t) == Ended(t, "delivered", t.faulted)

\* lines 402-404: the catch block logs and sends 'download-error'
Caught(t) == Ended(t, "error", t.faulted)

\* lines 402-407: the catch block sends 'download-error', then the finally block
Catch(p) ==
    /\ task[p].pc = "catch"
    /\ Continue(p, Caught(task[p]))
    /\ downloadLocks' = ReleaseLock(downloadLocks, task[p].song)
    /\ UNCHANGED <<now, cacheTable, blobs, searchSessions, timers, disposed, issued, lastServed, config, channelId, rateLimitMap, lastAccepted, idText, tempFiles, wire>>

\* ---------------------------------------------------------------------------
\* the ncmget command, the selection middleware, the timers

\* the timer left pending
KeepTimeout(ts, k) == ts

\* clearSearchSession (lines 200-206): clearTimeout(session.timeout) and delete
ClearTimeout(ts, k) ==
    IF searchSessions[k] = NoSession THEN ts
    ELSE {t \in ts : t.id # searchSessions[k].timeout}

\* the entry left in the map
KeepSession(k) == searchSessions

ClearSession(k) == [searchSessions EXCEPT ![k] = NoSession]

\* line 189: Date.now()
DateNow == Epoch + now

\* line 188: the key the limiter files a command of requester k under
LimiterKey(k) == IF config.rateLimitGlobal THEN 0 ELSE channelId[k]

\* a command exactly one interval after the last one held back too
TooSoonOrJust(date, lastCall) == date - lastCall <= rateLimitInterval

\* line 191: now - lastCall < config.rateLimitInterval * 1000
TooSoon(date, lastCall) == date - lastCall < rateLimitInterval

\* lines 186-194: checkRateLimit, what it returns
CheckRateLimit(k) ==
    \/ ~config.rateLimitEnabled
    \/ ~TooSoon(DateNow, rateLimitMap[LimiterKey(k)])

\* every call stamping its key, held back or not
StampedAlways(k, ok) == [rateLimitMap EXCEPT ![LimiterKey(k)] = DateNow]

\* lines 191-192: rateLimitMap after checkRateLimit returned ok for requester k
Stamped(k, ok) ==
    IF ok /\ config.rateLimitEnabled
    THEN [rateLimitMap EXCEPT ![LimiterKey(k)] = DateNow]
    ELSE rateLimitMap

\* lines 254-284: the command is held back by the limiter (line 260), or it is
\* accepted and ncm.searchMusic is awaited
Command(k, p, compress) ==
    /\ ~disposed
    /\ FirstFree(p)
    /\ issued < MaxCommands
    /\ IF CheckRateLimit(k)
       THEN /\ rateLimitMap' = Stamped(k, TRUE)
            /\ lastAccepted' = IF config.rateLimitEnabled
                                THEN [lastAccepted EXCEPT ![LimiterKey(k)] = now]
                                ELSE lastAccepted
            /\ issued' = issued + 1
            /\ Continue(p, [IdleTask EXCEPT !.pc = "search", !.key = k, !.compress = compress])
       ELSE /\ rateLimitMap' = Stamped(k, FALSE)
            /\ last' = [NoEvent EXCEPT !.op = "limited", !.key = k]
            /\ UNCHANGED <<lastAccepted, issued, task>>
    /\ UNCHANGED <<now, cacheTable, blobs, downloadLocks, searchSessions, timers, disposed, lastServed, config, channelId, idText, tempFiles, wire>>

\* ncmget <keyword> without -z
Ncmget(k, p) == Command(k, p, FALSE)

\* ncmget -z <keyword>, ctx.ffmpeg being there (lines 271-274)
NcmgetZ(k, p) == Command(k, p, TRUE)

\* the first candidate taken whenever there is one
FirstOfMany(results) == Len(results) >= 1

\* line 289: results.length === 1
Single(results) == Len(results) = 1

\* lines 284-302: the search resolves; no result, one result (handleSongRequest
\* at once, `results` staying in scope) or a list that is sent to the requester;
\* the event of a search that ends the command carries the number of candidates
SearchMusic(p, lists) ==
    /\ task[p].pc = "search"
    /\ \E ok \in BOOLEAN, results \in lists :
        LET t == task[p] IN
        /\ ~ok => results = <<>>
        /\ Continue(p, CASE ~ok -> Ended(t, "search-error", TRUE)
                         [] ok /\ Len(results) = 0 ->
                              [Ended(t, "no-results", FALSE) EXCEPT !.count = 0]
                         [] ok /\ Single(results) ->
                              [Dispatch(t.key, results[1]) EXCEPT !.compress = t.compress,
                                                                  !.results = results]
                         [] OTHER -> [t EXCEPT !.pc = "sendList", !.results = results])
    /\ UNCHANGED <<now, cacheTable, blobs, downloadLocks, searchSessions, timers, disposed, issued, lastServed, config, channelId, rateLimitMap, lastAccepted, idText, tempFiles, wire>>

\* setTimeout hands out a handle no pending timer has
FreeTimerId == CHOOSE i \in TimerIds : \A t \in timers : t.id # i

\* the session registered with no timer started for it
NoTimeout(ts, i, k) == ts

\* line 304: setTimeout(() => clearSearchSession(sessionKey), config.searchTimeout * 1000)
SetTimeout(ts, i, k) == ts \cup {[id |-> i, key |-> k, due |-> searchTimeout]}

\* lines 302-305: the list has been sent; setTimeout, then searchSessions.set
SendList(p) ==
    /\ task[p].pc = "sendList"
    /\ \E i \in TimerIds : \A t \in timers : t.id # i
    /\ \E ok \in BOOLEAN :
        LET t == task[p] IN
        IF ok
        THEN /\ timers' = SetTimeout(timers, FreeTimerId, t.key)
             /\ searchSessions' = [searchSessions EXCEPT ![t.key] =
                                        [results |-> t.results, timeout |-> FreeTimerId]]
             /\ Continue(p, [NoEvent EXCEPT !.op = "opened", !.key = t.key])
        ELSE /\ Continue(p, Ended(t, "search-error", TRUE))
             /\ UNCHANGED <<timers, searchSessions>>
    /\ UNCHANGED <<now, cacheTable, blobs, downloadLocks, disposed, issued, lastServed, config, channelId, rateLimitMap, lastAccepted, idText, tempFiles, wire>>

\* the reply taken as a 0-based index
ZeroBasedIndex(input) == ParseInt(input)

\* line 322: const index = parseInt(input) - 1
SelectedIndex(input) == ParseInt(input) - 1

\* some open session, whoever opened it
AnySession(k) ==
    IF \E j \in Keys : searchSessions[j] # NoSession
    THEN searchSessions[CHOOSE j \in Keys : searchSessions[j] # NoSession]
    ELSE NoSession

\* lines 315-316: searchSessions.get(getSessionKey(session))
SessionOf(k) == searchSessions[k]

\* lines 314-337: the selection middleware on a message of requester k
Middleware(k, input) ==
    /\ ~disposed
    /\ LET searchSession == SessionOf(k)
           index == SelectedIndex(input)
       IN IF searchSession = NoSession \/ ~IsNumeric(input)
          THEN /\ last' = [NoEvent EXCEPT !.op = "next", !.key = k, !.input = input]
               /\ UNCHANGED <<searchSessions, timers, task>>
          ELSE IF index = -1
          THEN /\ searchSessions' = ClearSession(k)
               /\ timers' = ClearTimeout(timers, k)
               /\ last' = [NoEvent EXCEPT !.op = "cancelled", !.key = k, !.input = input]
               /\ UNCHANGED task
          ELSE IF index >= 0 /\ index < Len(searchSession.results)
          THEN /\ searchSessions' = ClearSession(k)
               /\ timers' = ClearTimeout(timers, k)
               /\ \E p \in Procs :
                    /\ FirstFree(p)
                    /\ task' = [task EXCEPT ![p] = Dispatch(k, searchSession.results[index + 1])]
               /\ last' = [NoEvent EXCEPT !.op = "selected", !.key = k, !.input = input]
          ELSE /\ last' = [NoEvent EXCEPT !.op = "next", !.key = k, !.input = input]
               /\ UNCHANGED <<searchSessions, timers, task>>
    /\ UNCHANGED <<now, cacheTable, blobs, downloadLocks, disposed, issued, lastServed, config, channelId, rateLimitMap, lastAccepted, idText, tempFiles, wire>>

\* line 304: the callback of a timer that is due runs clearSearchSession(sessionKey)
TimerFire(t) ==
    /\ t \in timers
    /\ t.due = 0
    /\ timers' = ClearTimeout(timers \ {t}, t.key)
    /\ searchSessions' = ClearSession(t.key)
    /\ last' = [NoEvent EXCEPT !.op = "timeout", !.key = t.key]
    /\ UNCHANGED <<now, cacheTable, blobs, downloadLocks, disposed, task, issued, lastServed, config, channelId, rateLimitMap, lastAccepted, idText, tempFiles, wire>>

\* lines 178-184: the dispose handler
Dispose ==
    /\ ~disposed
    /\ disposed' = TRUE
    /\ timers' = {t \in timers : \A k \in Keys : searchSessions[k] = NoSession
                                                    \/ searchSessions[k].timeout # t.id}
    /\ searchSessions' = [k \in Keys |-> NoSession]
    /\ last' = [NoEvent EXCEPT !.op = "dispose"]
    /\ UNCHANGED <<now, cacheTable, blobs, downloadLocks, task, issued, lastServed, config, channelId, rateLimitMap, lastAccepted, idText, tempFiles, wire>>

\* ---------------------------------------------------------------------------
\* the environment

\* time passes: Date.now() advances (it is followed up to limit) and every
\* pending timer gets closer
Elapse(limit) ==
    /\ now < limit \/ \E t \in timers : t.due > 0
    /\ now' = IF now < limit THEN now + 1 ELSE now
    /\ timers' = {[t EXCEPT !.due = IF @ > 0 THEN @ - 1 ELSE 0] : t \in timers}
    /\ last' = NoEvent
    /\ UNCHANGED <<cacheTable, blobs, downloadLocks, searchSessions, disposed, task, issued, lastServed, config, channelId, rateLimitMap, lastAccepted, idText, tempFiles, wire>>

\* time as the other specifications follow it
Tick == Elapse(MaxTime)

\* a sweep that drops every entry of an earlier instant
ExpiredAtOnce(date, time) == date - time > 0

\* lines 172, 174: now - time > config.rateLimitInterval * 1000 * 10
Expired(date, time) == date - time > rateLimitInterval * 10

\* lines 170-176: the callback of rateLimitCleanupInterval, run at any moment
\* until dispose clears the interval (line 179); it deletes the expired entries
RateLimitCleanup ==
    /\ ~disposed
    /\ rateLimitMap' = [c \in LimiterKeys |->
                           IF rateLimitMap[c] # 0 /\ Expired(DateNow, rateLimitMap[c])
                           THEN 0 ELSE rateLimitMap[c]]
    /\ last' = NoEvent
    /\ UNCHANGED <<now, cacheTable, blobs, downloadLocks, searchSessions, timers, disposed, task, issued, lastServed, config, channelId, lastAccepted, idText, tempFiles, wire>>

\* a blob file is removed from the cache directory by something else
ExternalDelete(i) ==
    /\ i \in blobs
    /\ blobs' = blobs \ {i}
    /\ last' = NoEvent
    /\ UNCHANGED <<now, cacheTable, downloadLocks, searchSessions, timers, disposed, task, issued, lastServed, config, channelId, rateLimitMap, lastAccepted, idText, tempFiles, wire>>

\* ---------------------------------------------------------------------------

\* the plugin's collections after apply(), an empty ncm_cache table
Fresh ==
    /\ now = 0
    /\ cacheTable = [i \in Ids |-> NoRow]
    /\ blobs = {}
    /\ downloadLocks = {}
    /\ searchSessions = [k \in Keys |-> NoSession]
    /\ timers = {}
    /\ disposed = FALSE
    /\ task = [p \in Procs |-> IdleTask]
    /\ issued = 0
    /\ lastServed = [i \in Ids |-> 0]
    /\ rateLimitMap = [c \in LimiterKeys |-> 0]
    /\ tempFiles = {}
    /\ lastAccepted = [c \in LimiterKeys |-> -1]
    /\ last = NoEvent

\* rate limiting switched off (rateLimitEnabled: false); the ids of the tracks
\* are numbers, as music.163.com hands them out
Init ==
    /\ Fresh
    /\ wire = NoWire
    /\ config = [rateLimitEnabled |-> FALSE, rateLimitGlobal |-> TRUE]
    /\ channelId = [k \in Keys |-> 1]
    /\ idText = [i \in Ids |-> IdString(i)]

\* the same, the id of track 1 being any text of IdChars
InitPath ==
    /\ Fresh
    /\ wire = NoWire
    /\ config = [rateLimitEnabled |-> FALSE, rateLimitGlobal |-> TRUE]
    /\ channelId = [k \in Keys |-> 1]
    /\ \E id \in RawIds : idText = [i \in Ids |-> IF i = 1 THEN id ELSE IdString(i)]

\* rate limiting switched on, global or per channel, the two requesters in one
\* channel or in two
InitLimit ==
    /\ Fresh
    /\ wire = NoWire
    /\ config \in [rateLimitEnabled : {TRUE}, rateLimitGlobal : BOOLEAN]
    /\ channelId \in {c \in [Keys -> Channels] : c[1] = 1}
    /\ idText = [i \in Ids |-> IdString(i)]

\* what the remote may answer to getSongUrl, and to searchMusic
UrlAnswers == {"throw", "null", "url"}
NoUrlAnswers == {"throw", "null"}
ShortLists == {r \in ResultLists : Len(r) <= 1}
\* searches that find nothing or one of two tracks
RaceLists == {r \in ShortLists : \A n \in DOMAIN r : r[n] \in {1, 2}}

\* the steps of handleSongRequest
Fetch(p, answers) ==
    \/ Lookup(p)
    \/ Access(p)
    \/ SendCached(p)
    \/ Invalidate(p)
    \/ GetSongUrl(p, answers)
    \/ Notify(p)
    \/ GetCacheTotalSize(p)
    \/ CleanList(p)
    \/ CleanUnlink(p)
    \/ CleanSet(p)
    \/ DownloadSong(p)
    \/ Commit(p)
    \/ SendNew(p)
    \/ Catch(p)

Next ==
    \/ \E k \in Keys, p \in Procs : Ncmget(k, p)
    \/ \E p \in Procs : SearchMusic(p, ResultLists)
    \/ \E p \in Procs : SendList(p)
    \/ \E k \in Keys, input \in ReplyInputs : Middleware(k, input)
    \/ \E p \in Procs : Fetch(p, UrlAnswers)
    \/ \E t \in timers : TimerFire(t)
    \/ Dispose
    \/ Tick
    \/ \E i \in Ids : ExternalDelete(i)

\* the whole plugin
Spec == Init /\ [][Next]_vars

\* the fetch coordinator under concurrent commands issued within one clock tick:
\* every search has at most one candidate, one of two tracks, so no selection
\* session is opened
NextFetch ==
    \/ \E k \in Solo, p \in Procs : Ncmget(k, p)
    \/ \E p \in Procs : SearchMusic(p, RaceLists)
    \/ \E p \in Procs : Fetch(p, UrlAnswers)
    \/ \E i \in Ids : ExternalDelete(i)

SpecFetch == Init /\ [][NextFetch]_vars

\* searches that find nothing or the one track 1
OneTrack == {r \in ShortLists : \A n \in DOMAIN r : r[n] = 1}

\* concurrent commands for one track, every await of a running
\* handleSongRequest settling (resolved or rejected) sooner or later
NextLock ==
    \/ \E k \in Solo, p \in Procs : Ncmget(k, p)
    \/ \E p \in Procs : SearchMusic(p, OneTrack)
    \/ \E p \in Procs : Fetch(p, UrlAnswers)
    \/ \E i \in Ids : ExternalDelete(i)

SpecLock == Init /\ [][NextLock]_vars /\ \A p \in Procs : WF_vars(Fetch(p, UrlAnswers))

AllFree == \A p \in Procs : Free(p)

\* the same, one command at a time: a command is issued when no other is running
NextSeq ==
    \/ \E k \in Solo, p \in Procs : AllFree /\ Ncmget(k, p)
    \/ \E p \in Procs : SearchMusic(p, ShortLists)
    \/ \E p \in Procs : Fetch(p, UrlAnswers)
    \/ Tick
    \/ \E i \in Ids : ExternalDelete(i)

SpecSeq == Init /\ [][NextSeq]_vars

\* the selection sessions: the remote resolves no url, so every handleSongRequest
\* ends at line 361 or in the outer catch
NextSession ==
    \/ \E k \in Solo, p \in Procs : Ncmget(k, p)
    \/ \E p \in Procs : SearchMusic(p, ResultLists)
    \/ \E p \in Procs : SendList(p)
    \/ \E k \in Solo, input \in ReplyInputs : Middleware(k, input)
    \/ \E p \in Procs : Lookup(p)
    \/ \E p \in Procs : GetSongUrl(p, NoUrlAnswers)
    \/ \E t \in timers : TimerFire(t)
    \/ Dispose
    \/ Tick

SpecSession == Init /\ [][NextSession]_vars

\* the same, one command at a time
NextSessionSeq ==
    \/ \E k \in Solo, p \in Procs : AllFree /\ Ncmget(k, p)
    \/ \E p \in Procs : SearchMusic(p, ResultLists)
    \/ \E p \in Procs : SendList(p)
    \/ \E k \in Solo, input \in ReplyInputs : Middleware(k, input)
    \/ \E p \in Procs : Lookup(p)
    \/ \E p \in Procs : GetSongUrl(p, NoUrlAnswers)
    \/ \E t \in timers : TimerFire(t)
    \/ Dispose
    \/ Tick

SpecSessionSeq == Init /\ [][NextSessionSeq]_vars

\* the same, the clock running on and every timer that is due having its
\* callback run
SpecSessionLive ==
    SpecSessionSeq /\ WF_vars(Tick) /\ WF_vars(\E t \in timers : TimerFire(t))

\* searches that find the two candidates 1 and 2, in either order
PairLists == {r \in ResultLists : Len(r) = 2 /\ \A n \in DOMAIN r : r[n] \in {1, 2}}

\* the selection sessions of two requesters, one command at a time
NextPeers ==
    \/ \E k \in Keys, p \in Procs : AllFree /\ Ncmget(k, p)
    \/ \E p \in Procs : SearchMusic(p, PairLists)
    \/ \E p \in Procs : SendList(p)
    \/ \E k \in Keys, input \in ReplyInputs : Middleware(k, input)
    \/ \E p \in Procs : Lookup(p)
    \/ \E p \in Procs : GetSongUrl(p, NoUrlAnswers)
    \/ \E t \in timers : TimerFire(t)
    \/ Tick

SpecPeers == Init /\ [][NextPeers]_vars

\* searches that find nothing or the two candidates 1 and 2
LimitLists == PairLists \cup {<<>>}

\* the rate limiter: commands of two requesters, overlapping or not, while time
\* passes; the searches open sessions
NextLimit ==
    \/ \E k \in Keys, p \in Procs : Ncmget(k, p)
    \/ \E p \in Procs : SearchMusic(p, LimitLists)
    \/ \E p \in Procs : SendList(p)
    \/ \E t \in timers : TimerFire(t)
    \/ Tick

SpecLimit == InitLimit /\ [][NextLimit]_vars

\* the rate limiter over a long time: commands whose searches find nothing,
\* and the cleanup callback between them at any moment
NextSweep ==
    \/ \E k \in Keys, p \in Procs : Ncmget(k, p)
    \/ \E p \in Procs : SearchMusic(p, {<<>>})
    \/ RateLimitCleanup
    \/ Elapse(MaxLate)

SpecSweep == InitLimit /\ [][NextSweep]_vars

\* acquires of one track whose id is any text, one command at a time, up to
\* the lock being taken
NextPath ==
    \/ \E k \in Solo, p \in Procs : AllFree /\ Ncmget(k, p)
    \/ \E p \in Procs : SearchMusic(p, OneTrack)
    \/ \E p \in Procs : Lookup(p)
    \/ \E p \in Procs : GetSongUrl(p, UrlAnswers)
    \/ \E p \in Procs : Notify(p)

SpecPath == InitPath /\ [][NextPath]_vars

\* commands with and without -z for two tracks, one at a time
NextSend ==
    \/ \E k \in Solo, p \in Procs : AllFree /\ Ncmget(k, p)
    \/ \E k \in Solo, p \in Procs : AllFree /\ NcmgetZ(k, p)
    \/ \E p \in Procs : SearchMusic(p, RaceLists)
    \/ \E p \in Procs : Fetch(p, UrlAnswers)
    \/ \E p \in Procs : SendCompressed(p)

SpecSend == Init /\ [][NextSend]_vars

\* ---------------------------------------------------------------------------
\* weapi (service.ts lines 85-124) and unwrapJsonResponse (lines 72-82), at a
\* reduced scale: a byte has 4 bits, a base64 digit 3 bits (3 bytes make 4
\* digits, as 3 octets make 4 sextets), a cipher block and a key have BlockLen
\* bytes, the RSA modulus has HexWidth hex digits. A payload is {"s": <text>,
\* "t": <number>}

BlockLen == 2
\* the 16 characters a plaintext is made of, by byte value 0..15 (utf8)
Charset == <<"{", "}", "\"", ":", ",", "\\", "t", "=", "A", "B", "a", "s", "1", "2", "+", "/">>
\* the base64 alphabet, by digit value 0..7
Base64Chars == <<"A", "B", "a", "s", "1", "2", "+", "/">>
HexChars == <<"0", "1", "2", "3", "4", "5", "6", "7", "8", "9", "a", "b", "c", "d", "e", "f">>
\* a text, and a byte string, that is the result of a failed decoding
BadText == <<"?">>
BadBytes == <<-1>>

IndexOf(c, chars) == IF \E n \in DOMAIN chars : chars[n] = c
                     THEN (CHOOSE n \in DOMAIN chars : chars[n] = c) - 1 ELSE -1

\* Buffer.from(text, 'utf8')
Utf8(text) == IF \A n \in DOMAIN text : IndexOf(text[n], Charset) >= 0
              THEN [n \in DOMAIN text |-> IndexOf(text[n], Charset)] ELSE BadBytes

\* buffer.toString('base64'): 3 bytes make 4 digits, '=' fills the last group
RECURSIVE Base64(_)
Base64(bytes) ==
    IF bytes = <<>> THEN <<>>
    ELSE LET n == IF Len(bytes) < 3 THEN Len(bytes) ELSE 3
             v == 256 * bytes[1] + (IF n >= 2 THEN 16 * bytes[2] ELSE 0) + (IF n = 3 THEN bytes[3] ELSE 0)
             d == <<Base64Chars[(v \div 512) + 1], Base64Chars[((v \div 64) % 8) + 1],
                    Base64Chars[((v \div 8) % 8) + 1], Base64Chars[(v % 8) + 1]>>
         IN (CASE n = 3 -> d
               [] n = 2 -> <<d[1], d[2], d[3], "=">>
               [] OTHER -> <<d[1], d[2], "=", "=">>)
            \o Base64(SubSeq(bytes, n + 1, Len(bytes)))

RECURSIVE Xor(_, _)
Xor(a, b) == IF a = 0 /\ b = 0 THEN 0 ELSE ((a + b) % 2) + 2 * Xor(a \div 2, b \div 2)

\* the block cipher of crypto.createCipheriv('aes-128-cbc', key, iv): a keyed
\* permutation of the blocks
EncryptBlock(k, b) ==
    LET y == (5 * Xor(b[1], k[1]) + 3) % 16
    IN <<y, (5 * Xor(Xor(b[2], k[2]), y) + 3) % 16>>

\* cipher block chaining from the initialisation vector
RECURSIVE CbcEncrypt(_, _, _)
CbcEncrypt(k, prev, bytes) ==
    IF bytes = <<>> THEN <<>>
    ELSE LET c == EncryptBlock(k, <<Xor(bytes[1], prev[1]), Xor(bytes[2], prev[2])>>)
         IN c \o CbcEncrypt(k, c, SubSeq(bytes, BlockLen + 1, Len(bytes)))

\* '0102030405060708' and '0CoJUm6Qyw8W8jud'
Iv == <<"1", "2">>
PresetKey == <<"s", "A">>

\* lines 97-100: cipher.update(text, 'utf8', 'base64') + cipher.final('base64');
\* the cipher's string decoder holds back an incomplete group of 3 bytes, so
\* the concatenation is the base64 of the whole ciphertext
\* that is padded as PKCS#7 by cipher.final
aesEncrypt(text, key) ==
    LET bytes == Utf8(text)
        n == BlockLen - (Len(bytes) % BlockLen)
    IN Base64(CbcEncrypt(Utf8(key), Utf8(Iv), bytes \o [i \in 1..n |-> n]))

\* the secret used in the order it was drawn
NotReversed(text) == text

\* line 103: text.split('').reverse().join('')
Reversed(text) == [n \in DOMAIN text |-> text[Len(text) + 1 - n]]

\* lines 104-105: BigInt('0x' + Buffer.from(reversed).toString('hex'))
RECURSIVE BigInt(_)
BigInt(bytes) == IF bytes = <<>> THEN 0
                 ELSE 16 * BigInt(SubSeq(bytes, 1, Len(bytes) - 1)) + bytes[Len(bytes)]

\* the public key of lines 106-107
modulus == 3233
exponent == 17
HexWidth == 3

\* lines 112-124: the loop of powMod
RECURSIVE PowLoop(_, _, _, _)
PowLoop(result, base, exp, mod) ==
    IF exp > 0
    THEN PowLoop(IF exp % 2 = 1 THEN (result * base) % mod ELSE result, (base * base) % mod, exp \div 2, mod)
    ELSE result
powMod(base, exp, mod) == PowLoop(1, base % mod, exp, mod)

\* n.toString(16).padStart(width, '0')
RECURSIVE Hex(_, _)
Hex(n, width) == IF width = 0 /\ n = 0 THEN <<>>
                 ELSE Hex(n \div 16, IF width > 0 THEN width - 1 ELSE 0) \o <<HexChars[(n % 16) + 1]>>

\* lines 102-110: rsaEncrypt
rsaEncrypt(text) == Hex(powMod(BigInt(Utf8(Reversed(text))), exponent, modulus), HexWidth)

\* encodeURIComponent: '+', '/' and '=' are escaped, letters and digits are kept
RECURSIVE EncodeURIComponent(_)
EncodeURIComponent(text) ==
    IF text = <<>> THEN <<>>
    ELSE (CASE Head(text) = "+" -> <<"%", "2", "B">>
            [] Head(text) = "/" -> <<"%", "2", "F">>
            [] Head(text) = "=" -> <<"%", "3", "D">>
            [] OTHER -> <<Head(text)>>) \o EncodeURIComponent(Tail(text))

\* JSON.stringify of a payload: '"' and '\' of a string are escaped
RECURSIVE Escape(_)
Escape(text) ==
    IF text = <<>> THEN <<>>
    ELSE (IF Head(text) \in {"\"", "\\"} THEN <<"\\", Head(text)>> ELSE <<Head(text)>>)
         \o Escape(Tail(text))
Stringify(params) ==
    <<"{", "\"", "s", "\"", ":", "\"">> \o Escape(params.s)
    \o <<"\"", ",", "\"", "t", "\"", ":">> \o IdString(params.t) \o <<"}">>

\* JSON.parse of the text of a payload; NoParams for any other text
RECURSIVE ReadString(_, _)
ReadString(text, acc) ==
    IF text = <<>> THEN [ok |-> FALSE, s |-> acc, rest |-> <<>>]
    ELSE IF Head(text) = "\"" THEN [ok |-> TRUE, s |-> acc, rest |-> Tail(text)]
    ELSE IF Head(text) = "\\"
    THEN (IF Len(text) >= 2 /\ text[2] \in {"\"", "\\"}
          THEN ReadString(SubSeq(text, 3, Len(text)), Append(acc, text[2]))
          ELSE [ok |-> FALSE, s |-> acc, rest |-> <<>>])
    ELSE ReadString(Tail(text), Append(acc, Head(text)))
Parse(text) ==
    IF ~StartsWith(text, <<"{", "\"", "s", "\"", ":", "\"">>) THEN NoParams
    ELSE LET r == ReadString(SubSeq(text, 7, Len(text)), <<>>)
         IN IF r.ok /\ Len(r.rest) = 7
               /\ SubSeq(r.rest, 1, 5) = <<",", "\"", "t", "\"", ":">>
               /\ IsNumeric(<<r.rest[6]>>) /\ r.rest[7] = "}"
            THEN [s |-> r.s, t |-> ParseInt(<<r.rest[6]>>)] ELSE NoParams

\* lines 85-95: weapi, secKey being the 16 characters drawn with Math.random
weapi(params, secKey) ==
    <<"params", "=">> \o EncodeURIComponent(aesEncrypt(aesEncrypt(Stringify(params), PresetKey), secKey))
    \o <<"&", "encSecKey", "=">> \o EncodeURIComponent(rsaEncrypt(secKey))

\* the remote that decrypts a request body and sends its plaintext back. It
\* holds the private exponent of the key; it takes the two fields apart at '&'
\* and '=', reads them as form fields (%XX is a character, '+' a space),
\* recovers the secret (the number to the power of the private exponent, as
\* BlockLen bytes, read backwards) and takes off the two cipher layers (base64
\* decoded, CBC decrypted, PKCS#7 padding removed)
ServerStub(body) ==
    LET PrivateExponent == 2753
        FromUtf8(bytes) == IF \A n \in DOMAIN bytes : bytes[n] \in 0..15
                           THEN [n \in DOMAIN bytes |-> Charset[bytes[n] + 1]] ELSE BadText
        RECURSIVE FromBase64(_)
        FromBase64(text) ==
            IF text = <<>> THEN <<>>
            ELSE IF Len(text) < 4 \/ IndexOf(text[1], Base64Chars) < 0 \/ IndexOf(text[2], Base64Chars) < 0
            THEN BadBytes
            ELSE LET n == CASE text[3] = "=" /\ text[4] = "=" -> 1 [] text[4] = "=" -> 2 [] OTHER -> 3
                     d3 == IF n >= 2 THEN IndexOf(text[3], Base64Chars) ELSE 0
                     d4 == IF n = 3 THEN IndexOf(text[4], Base64Chars) ELSE 0
                     v == 512 * IndexOf(text[1], Base64Chars) + 64 * IndexOf(text[2], Base64Chars) + 8 * d3 + d4
                     rest == FromBase64(SubSeq(text, 5, Len(text)))
                 IN IF d3 < 0 \/ d4 < 0 \/ rest = BadBytes \/ (n < 3 /\ Len(text) > 4) THEN BadBytes
                    ELSE SubSeq(<<v \div 256, (v \div 16) % 16, v % 16>>, 1, n) \o rest
        DecryptBlock(k, c) ==
            <<Xor((13 * (c[1] + 13)) % 16, k[1]), Xor(Xor((13 * (c[2] + 13)) % 16, c[1]), k[2])>>
        Unpad(bytes) ==
            IF bytes = <<>> \/ bytes = BadBytes THEN BadBytes
            ELSE LET n == bytes[Len(bytes)]
                 IN IF n \in 1..BlockLen /\ n <= Len(bytes)
                       /\ \A i \in (Len(bytes) - n + 1)..Len(bytes) : bytes[i] = n
                    THEN SubSeq(bytes, 1, Len(bytes) - n) ELSE BadBytes
        RECURSIVE CbcDecrypt(_, _, _)
        CbcDecrypt(k, prev, bytes) ==
            IF bytes = <<>> THEN <<>>
            ELSE LET d == DecryptBlock(k, bytes)
                 IN <<Xor(d[1], prev[1]), Xor(d[2], prev[2])>>
                    \o CbcDecrypt(k, SubSeq(bytes, 1, BlockLen), SubSeq(bytes, BlockLen + 1, Len(bytes)))
        AesDecrypt(text, key) ==
            LET bytes == FromBase64(text)
            IN IF bytes = BadBytes \/ key = BadText \/ Utf8(key) = BadBytes
                  \/ Len(bytes) % BlockLen # 0 THEN BadText
               ELSE FromUtf8(Unpad(CbcDecrypt(Utf8(key), Utf8(Iv), bytes)))
        RsaDecrypt(hex) ==
            IF \E n \in DOMAIN hex : IndexOf(hex[n], HexChars) < 0 THEN BadText
            ELSE LET m == powMod(BigInt([n \in DOMAIN hex |-> IndexOf(hex[n], HexChars)]),
                                 PrivateExponent, modulus)
                 IN IF m >= 256 THEN BadText ELSE FromUtf8(<<m % 16, m \div 16>>)
        RECURSIVE FormDecode(_)
        FormDecode(text) ==
            IF text = <<>> THEN <<>>
            ELSE IF Head(text) = "%"
            THEN (IF Len(text) < 3 THEN BadText
                  ELSE LET c == CASE SubSeq(text, 2, 3) = <<"2", "B">> -> "+"
                                  [] SubSeq(text, 2, 3) = <<"2", "F">> -> "/"
                                  [] SubSeq(text, 2, 3) = <<"3", "D">> -> "="
                                  [] OTHER -> "?"
                       IN <<c>> \o FormDecode(SubSeq(text, 4, Len(text))))
            ELSE <<IF Head(text) = "+" THEN " " ELSE Head(text)>> \o FormDecode(Tail(text))
        amp == IndexOf("&", body) + 1
        encText == FormDecode(SubSeq(body, 3, amp - 1))
        encSecKey == FormDecode(SubSeq(body, amp + 3, Len(body)))
    IN IF amp = 0 \/ ~StartsWith(body, <<"params", "=">>)
          \/ SubSeq(body, amp + 1, amp + 2) # <<"encSecKey", "=">> THEN BadText
       ELSE LET inner == AesDecrypt(encText, RsaDecrypt(encSecKey))
            IN IF inner = BadText THEN BadText ELSE AesDecrypt(inner, PresetKey)

\* lines 72-82: unwrapJsonResponse; a text that is not JSON stays a text (NoParams)
unwrapJsonResponse(response) ==
    IF response.isText THEN Parse(response.text)
    ELSE IF "data" \in DOMAIN response.object THEN response.object.data
    ELSE response.object

\* the payloads (the keyword and a number) and the secrets of this scale
Payloads == [s : UNION {[1..n -> {"a", "\"", "\\", "+"}] : n \in 0..2}, t : {1, 2}]
Secrets == [1..BlockLen -> {"a", "B", "1"}]

\* a request is built: weapi draws its secret and encrypts the payload
Weapi ==
    /\ wire.stage = "params"
    /\ \E secKey \in Secrets :
        wire' = [wire EXCEPT !.stage = "sent", !.secKey = secKey, !.body = weapi(wire.params, secKey)]
    /\ UNCHANGED <<now, cacheTable, blobs, downloadLocks, searchSessions, timers, disposed, task, issued, lastServed, config, channelId, rateLimitMap, lastAccepted, idText, tempFiles, last>>

\* the remote answers with what it decrypted; the http client hands the
\* answer on as a text or as the object it parsed from it
Echo ==
    /\ wire.stage = "sent"
    /\ \E isText \in BOOLEAN :
        LET text == ServerStub(wire.body)
        IN wire' = [wire EXCEPT !.stage = "answered",
                                !.response = [isText |-> isText,
                                              text |-> IF isText THEN text ELSE <<>>,
                                              object |-> IF isText THEN NoParams ELSE Parse(text)]]
    /\ UNCHANGED <<now, cacheTable, blobs, downloadLocks, searchSessions, timers, disposed, task, issued, lastServed, config, channelId, rateLimitMap, lastAccepted, idText, tempFiles, last>>

\* the response is unwrapped
Unwrap ==
    /\ wire.stage = "answered"
    /\ wire' = [wire EXCEPT !.stage = "decoded", !.decoded = unwrapJsonResponse(wire.response)]
    /\ UNCHANGED <<now, cacheTable, blobs, downloadLocks, searchSessions, timers, disposed, task, issued, lastServed, config, channelId, rateLimitMap, lastAccepted, idText, tempFiles, last>>

\* one payload about to be sent
InitWeapi ==
    /\ Fresh
    /\ config = [rateLimitEnabled |-> FALSE, rateLimitGlobal |-> TRUE]
    /\ channelId = [k \in Keys |-> 1]
    /\ idText = [i \in Ids |-> IdString(i)]
    /\ \E params \in Payloads : wire = [NoWire EXCEPT !.stage = "params", !.params = params]

NextWeapi == Weapi \/ Echo \/ Unwrap

SpecWeapi == InitWeapi /\ [][NextWeapi]_vars

\* ---------------------------------------------------------------------------
\* the claims

\* a task that has added its id to downloadLocks and whose blob write is still to come
Downloading(p) == task[p].pc \in {"total", "list", "unlink", "set", "download"}

\* C1: at most one download per track id is in flight at any time; two tasks
\* are never both between the lock and the blob write for the same id.
C1_OneDownloadPerId ==
    \A p, q \in Procs : (p # q /\ Downloading(p) /\ Downloading(q)) => task[p].song # task[q].song

\* C2: an acquire that found its cached row's blob gone and cleared the row goes
\* on to resolve, download and commit, and ends with the track delivered and the
\* row cached again, when no remote, file or database call of it failed.
C2_StaleHitRefetched ==
    (last.op = "ended" /\ last.cacheEntry = "cleared" /\ ~last.faulted
        /\ last.outcome \notin {"unavailable", "busy"})
    => (last.outcome = "delivered" /\ cacheTable[last.song].cached)

C6_CacheBounded == TotalSize(cacheTable) <= cacheMaxSize

\* C7: within one sweep the evicted rows' cacheTime values are non-decreasing in
\* eviction order, and while no deletion of the sweep has failed no row still
\* cached is older than an evicted one.
C7_OldestFirst ==
    \A p \in Procs :
        LET ev == task[p].evicted IN
        /\ \A a, b \in DOMAIN ev : a < b => ev[a].cacheTime <= ev[b].cacheTime
        /\ task[p].sweep # "failed" =>
              \A a \in DOMAIN ev : \A i \in CachedIds(cacheTable) :
                  ev[a].cacheTime <= cacheTable[i].cacheTime

C7_Witness ==
    \E p \in Procs :
        /\ Len(task[p].evicted) = 2
        /\ task[p].evicted[1].cacheTime < task[p].evicted[2].cacheTime
        /\ task[p].sweep # "failed"

\* C8: eviction is least-recently-used first, a serve from the cache counting as
\* a use: of two cached tracks the one served less recently is never the one
\* the sweep would evict later.
C8_LeastRecentlyUsedFirst ==
    \A i, j \in CachedIds(cacheTable) :
        lastServed[i] < lastServed[j] => cacheTable[i].cacheTime <= cacheTable[j].cacheTime

\* C9: an acquire that added its id to downloadLocks has removed it when it ends,
\* whatever failed on the way; an id is locked only while an acquire that locked
\* it is still running, and a locked id is eventually unlocked.
C9_LockReleased ==
    /\ \A i \in Ids : (i \in downloadLocks) ~> (i \notin downloadLocks)
    /\ [](\A i \in downloadLocks : \E p \in Procs : task[p].pc \in LockedPcs /\ task[p].song = i)
    /\ [][\A p \in Procs :
             (task[p].pc \in LockedPcs /\ task'[p].pc = "idle")
             => task[p].song \notin downloadLocks']_vars

C9_Witness ==
    /\ last.op = "ended"
    /\ last.held
    /\ last.outcome = "error"
    /\ last.faulted
    /\ last.song \notin downloadLocks

\* C3: a pending timer is always the timer of the live session of its key, so the
\* timer of a session that a new search replaced has been cancelled.
C3_ReplacedTimerCancelled ==
    \A t \in timers : searchSessions[t.key] # NoSession /\ searchSessions[t.key].timeout = t.id

\* the timer a session was created with has run for searchTimeout
OwnTimerDue(k) == \E t \in timers : t.id = searchSessions[k].timeout /\ t.due = 0

\* C4: a session leaves AwaitingChoice only by a consumed reply of its requester
\* (0 or in range), by a new search of that requester, by dispose, or by a
\* timeout once its own timer is due.
C4_NoEarlyExpiry ==
    [][\A k \in Keys :
          (searchSessions[k] # NoSession /\ searchSessions'[k] # searchSessions[k])
          => \/ last'.op \in {"cancelled", "selected", "opened"} /\ last'.key = k
             \/ last'.op = "dispose"
             \/ last'.op = "timeout" /\ OwnTimerDue(k)]_vars

\* C10: a numeric reply n with 1 <= n <= N of the requester of an open session is
\* consumed: the session and its timer are removed and handleSongRequest starts
\* with the candidate at index n - 1 (the n-th of the list).
C10_ReplySelects ==
    [][\A k \in Keys :
          LET n == ParseInt(last'.input)
              session == searchSessions[k]
          IN (/\ session # NoSession
              /\ last'.op \in {"next", "cancelled", "selected"}
              /\ last'.key = k
              /\ IsNumeric(last'.input)
              /\ n >= 1
              /\ n <= Len(session.results))
             => /\ last'.op = "selected"
                /\ searchSessions'[k] = NoSession
                /\ \A t \in timers' : t.id # session.timeout
                /\ \E p \in Procs : /\ task[p].pc = "idle"
                                    /\ task'[p] = Dispatch(k, session.results[n])
                                    /\ \A q \in Procs \ {p} : task'[q] = task[q]]_vars

C10_Witness ==
    /\ last.op = "selected"
    /\ last.input = <<"2">>
    /\ searchSessions[last.key] = NoSession
    /\ \E p \in Procs : task[p].pc = "lookup" /\ task[p].key = last.key

\* C11: a message that is not a reply to an open session of its sender (the
\* sender has none, the text is not numeric, or its value is greater than the
\* number of candidates) is passed on and changes no session, no timer and no
\* task; and no message changes the session or the timer of another requester.
C11_OtherInputPassedOn ==
    [][\A k \in Keys :
          (last'.op \in {"next", "cancelled", "selected"} /\ last'.key = k)
          => /\ (\/ searchSessions[k] = NoSession
                 \/ ~IsNumeric(last'.input)
                 \/ ParseInt(last'.input) > Len(searchSessions[k].results))
                => /\ last'.op = "next"
                   /\ UNCHANGED <<searchSessions, timers, task>>
             /\ \A j \in Keys \ {k} :
                   /\ searchSessions'[j] = searchSessions[j]
                   /\ \A t \in timers : t.id = searchSessions[j].timeout => t \in timers'
                   /\ \A p \in Procs : task'[p] # task[p] => task'[p].key # j]_vars

\* requester 1 has an open session and a "1" of requester 2, who has none, was passed on
C11_Witness ==
    /\ last.op = "next"
    /\ last.key = 2
    /\ last.input = <<"1">>
    /\ searchSessions[1] # NoSession
    /\ searchSessions[2] = NoSession

\* C12: a reply of numeric value 0 by the requester of an open session is
\* consumed as a cancel: the session is removed, its timer is cancelled, and no
\* task is started and no row, blob or lock changes.
C12_ZeroCancels ==
    [][\A k \in Keys :
          (/\ searchSessions[k] # NoSession
           /\ last'.op \in {"next", "cancelled", "selected"}
           /\ last'.key = k
           /\ IsNumeric(last'.input)
           /\ ParseInt(last'.input) = 0)
          => /\ last'.op = "cancelled"
             /\ searchSessions'[k] = NoSession
             /\ \A t \in timers' : t.id # searchSessions[k].timeout
             /\ UNCHANGED <<task, cacheTable, blobs, downloadLocks>>]_vars

C12_Witness ==
    /\ last.op = "cancelled"
    /\ last.input = <<"0", "0">>
    /\ searchSessions[last.key] = NoSession
    /\ timers = {}
    /\ AllFree

\* C13: an open session that no reply closes is closed by a timeout; the timeout
\* removes the session and leaves its timer not pending, starts no task and
\* changes no row, blob or lock; and a reply is consumed (cancel or selection)
\* only while its sender has a session, so not after the timeout.
C13_TimeoutExpires ==
    /\ \A k \in Keys : (searchSessions[k] # NoSession) ~> (searchSessions[k] = NoSession)
    /\ [][\A k \in Keys :
             /\ (last'.op = "timeout" /\ last'.key = k)
                => /\ searchSessions'[k] = NoSession
                   /\ \A t \in timers' : t.id # searchSessions[k].timeout
                   /\ UNCHANGED <<task, cacheTable, blobs, downloadLocks>>
             /\ (last'.op \in {"cancelled", "selected"} /\ last'.key = k)
                => searchSessions[k] # NoSession]_vars

\* the timer of the only session opened so far has fired
C13_Witness ==
    /\ last.op = "timeout"
    /\ searchSessions[last.key] = NoSession
    /\ issued = 1
    /\ timers = {}
    /\ now >= searchTimeout
    /\ ~disposed

\* the step is a command of requester k that the limiter let through
Accepted(k) == \E p \in Procs : task[p].pc = "idle" /\ task'[p].pc = "search" /\ task'[p].key = k

\* the step is a command of requester k that the limiter held back
Rejected(k) == last'.op = "limited" /\ last'.key = k

\* less than rateLimitInterval has passed since the last command let through
\* under the limiter key of requester k
WithinInterval(k) ==
    /\ lastAccepted[LimiterKey(k)] # -1
    /\ now - lastAccepted[LimiterKey(k)] < rateLimitInterval

\* C14: with rate limiting on, a command is held back exactly when less than
\* rateLimitInterval has passed since the last command let through under the
\* same limiter key, and a command let through stamps that key with the call time.
C14_RejectedIffWithinInterval ==
    [][\A k \in Keys :
          /\ Rejected(k) => WithinInterval(k)
          /\ Accepted(k) => /\ ~WithinInterval(k)
                            /\ rateLimitMap'[LimiterKey(k)] = DateNow
                            /\ \A c \in LimiterKeys \ {LimiterKey(k)} :
                                  rateLimitMap'[c] = rateLimitMap[c]]_vars

\* per channel, two channels: requester 2 is let through at the time of
\* requester 1's last command, requester 1 was held back one Tick after it
C14_Witness ==
    /\ ~config.rateLimitGlobal
    /\ channelId[2] = 2
    /\ last.op = "limited"
    /\ last.key = 1
    /\ now = 1
    /\ lastAccepted[1] = 0
    /\ lastAccepted[2] = 1

\* C15: a command the limiter holds back sends nothing, starts no search and
\* leaves the limiter's timestamps, the sessions and their timers, the cache
\* table, the blobs and the lock set as they were.
C15_RejectedIsSilent ==
    [][\A k \in Keys :
          Rejected(k)
          => /\ last'.outcome = "none"
             /\ UNCHANGED <<task, issued, rateLimitMap, searchSessions, timers,
                            cacheTable, blobs, downloadLocks>>]_vars

\* global scope: a command of a requester whose session is open was held back
C15_Witness ==
    /\ config.rateLimitGlobal
    /\ last.op = "limited"
    /\ searchSessions[last.key] # NoSession
    /\ rateLimitMap[0] = Epoch

\* C16: an acquire whose hit was verified (row cached, cachePath set, fs.access
\* passed) only serves the blob and returns: its next step ends it, without a
\* getSongUrl or download to follow, and changes no row, no blob and no lock.
C16_HitOnlyServes ==
    [][\A p \in Procs :
          (task[p].pc = "sendCached" /\ task'[p] # task[p])
          => /\ task'[p].pc = "idle"
             /\ UNCHANGED <<cacheTable, blobs, downloadLocks>>]_vars

\* C17: an acquire goes on past getSongUrl only with a url; when the answer has
\* none the acquire ends with the 'song-unavailable' message, having changed no
\* row and no blob and never having added its id to downloadLocks.
C17_UnavailableEndsAcquire ==
    /\ [](\A p \in Procs : task[p].pc \in LockedPcs \cup {"notify"} => task[p].urlInfo = "url")
    /\ [][\A p \in Procs :
             (/\ task[p].pc = "getSongUrl"
              /\ task'[p].pc = "idle"
              /\ last'.outcome = "unavailable")
             => /\ ~last'.held
                /\ UNCHANGED <<cacheTable, blobs, downloadLocks>>]_vars

\* the track of a first command was unavailable: no row, no blob, no lock
C17_Witness ==
    /\ last.op = "ended"
    /\ last.outcome = "unavailable"
    /\ ~cacheTable[last.song].exists
    /\ last.song \notin blobs
    /\ last.song \notin downloadLocks
    /\ issued = 1

\* the characters of id that are letters, digits or '-', in their order
RECURSIVE OnlySafe(_)
OnlySafe(id) ==
    IF id = <<>> THEN <<>>
    ELSE (IF Head(id) \in {"/", ".", "_"} THEN <<>> ELSE <<Head(id)>>) \o OnlySafe(Tail(id))

\* C18: an acquire that goes on to take the lock and to write a blob has a
\* non-empty sanitized id, and its savePath is the cache root followed by the one
\* segment <sanitized id>.mp3; an acquire ended by the id test or the path test
\* never took the lock and changed no row, no blob and no lock.
C18_BlobPathFromSanitizedId ==
    /\ [](\A p \in Procs :
             task[p].pc \in LockedPcs \cup {"notify"}
             => /\ OnlySafe(idText[task[p].song]) # <<>>
                /\ task[p].savePath
                     = PathText(CacheRoot) \o <<"/">> \o OnlySafe(idText[task[p].song]) \o Mp3)
    /\ [][\A p \in Procs :
             (task[p].pc = "getSongUrl" /\ task'[p].pc = "idle" /\ last'.outcome = "invalid")
             => /\ ~last'.held
                /\ UNCHANGED <<cacheTable, blobs, downloadLocks>>]_vars

\* the id "../" sanitizes to nothing: its acquire was ended by the id test
C18_Witness ==
    /\ idText[1] = <<".", ".", "/">>
    /\ last.op = "ended"
    /\ last.song = 1
    /\ last.outcome = "invalid"
    /\ downloadLocks = {}
    /\ blobs = {}

\* C19: every row of ncm_cache has cached = true exactly when its cachePath is set.
C19_CachedIffPath ==
    \A i \in Ids : cacheTable[i].exists => (cacheTable[i].cached <=> cacheTable[i].cachePath)

\* of two rows that were committed, one was evicted by a sweep and the other
\* cleared as stale by an acquire
C19_Witness ==
    \E i, j \in Ids :
        /\ cacheTable[j].exists /\ ~cacheTable[j].cached /\ ~cacheTable[j].cachePath
        /\ cacheTable[j].fileSize = 0
        /\ cacheTable[i].exists /\ ~cacheTable[i].cached /\ ~cacheTable[i].cachePath
        /\ cacheTable[i].fileSize > 0
        /\ \E p \in Procs : task[p].cacheEntry = "cleared" /\ task[p].song = i

\* C20: when a sendCachedSong call with compress ends, the compressed temporary
\* file of its track is not on disk: if one was written, its deletion was issued.
C20_TempFileRemoved ==
    [][\A p \in Procs :
          (task[p].pc \in ZPcs /\ task'[p].pc \notin ZPcs)
          => task[p].song \notin tempFiles']_vars

\* C21: the result of a search decides the next step by its number of
\* candidates. None: the command ends with 'no-results', not as a failure, no
\* session opened, no acquire started. One: the acquire of that candidate starts
\* at once, no session opened. Two or more: no acquire starts; the list is sent
\* and, once sent, the session of the requester holds the candidates and a timer
\* of searchTimeout is pending for it. A failed search opens no session. An
\* acquire starts only from a search with one candidate or from a consumed reply.
C21_SearchOutcomeByCount ==
    [][\A p \in Procs :
          LET \* the number of candidates of the search that resolved in this
              \* step for the command in slot p; -1 when the search failed
              Found == IF task'[p].pc = "idle" THEN last'.count ELSE Len(task'[p].results)
              \* the step starts a handleSongRequest in slot p
              Dispatched == task[p].pc # "lookup" /\ task'[p].pc = "lookup"
          IN
          /\ (task[p].pc = "search" /\ task'[p] # task[p])
             => /\ UNCHANGED <<searchSessions, timers>>
                /\ \A q \in Procs \ {p} : task'[q] = task[q]
                /\ Found = -1 => (task'[p].pc = "idle" /\ last'.outcome = "search-error")
                /\ Found = 0 => /\ task'[p].pc = "idle"
                                   /\ last'.outcome = "no-results"
                                   /\ ~last'.faulted
                /\ Found = 1 => task'[p] = [Dispatch(task[p].key, task'[p].results[1])
                                                 EXCEPT !.compress = task[p].compress,
                                                        !.results = task'[p].results]
                /\ Found >= 2 => task'[p].pc = "sendList"
          /\ (task[p].pc = "sendList" /\ task'[p] # task[p])
             => /\ task'[p].pc = "idle"
                /\ \A q \in Procs \ {p} : task'[q] = task[q]
                /\ IF last'.op = "opened"
                   THEN /\ searchSessions'[task[p].key].results = task[p].results
                        /\ Len(task[p].results) >= 2
                        /\ \E t \in timers' : /\ t.id = searchSessions'[task[p].key].timeout
                                               /\ t.key = task[p].key
                                               /\ t.due = searchTimeout
                                               /\ t \notin timers
                   ELSE last'.outcome = "search-error" /\ UNCHANGED <<searchSessions, timers>>
          /\ Dispatched
             => \/ task[p].pc = "search" /\ Found = 1
                \/ /\ last'.op = "selected"
                   /\ searchSessions[last'.key] # NoSession
                   /\ searchSessions'[last'.key] = NoSession
                   /\ task'[p].song \in {searchSessions[last'.key].results[n] :
                                            n \in DOMAIN searchSessions[last'.key].results}]_vars

\* a search with two candidates has opened a session, its timer running, and no
\* acquire has started
C21_Witness ==
    /\ last.op = "opened"
    /\ Len(searchSessions[last.key].results) = 2
    /\ \E t \in timers : t.id = searchSessions[last.key].timeout /\ t.due = searchTimeout
    /\ AllFree
    /\ issued = 1

\* C22: once the dispose handler has run no timer is pending, so that no expiry
\* callback can fire any more, and the registry holds no session: none is left
\* and none is created.
C22_DisposeStopsAll ==
    disposed => (timers = {} /\ \A k \in Keys : searchSessions[k] = NoSession)

C24_LockedBeforeResolve ==
    \A p \in Procs : task[p].pc = "getSongUrl" => task[p].song \in downloadLocks

\* where a task is inside cleanOldCache
SweepPcs == {"total", "list", "unlink", "set"}

\* C25 as stated: no call of cleanOldCache raises to handleSongRequest.
C25_SweepNeverRaises ==
    [][\A p \in Procs : task[p].pc \in SweepPcs => task'[p].pc # "catch"]_vars

\* C25: cleanOldCache raises to its caller only when its read of the cached rows
\* fails, before any row is visited. Its loop visits each row of the list once,
\* in a number of steps bounded by the list. A row whose unlink or whose update
\* failed is done with: it is cached as before, nothing is counted as freed, no
\* other row changes, and the loop goes on with the next row; the loop is left
\* only when the budget is met or no row is left.
C25_SweepSkipsFailures ==
    /\ [](\A p \in Procs : \A a, b \in DOMAIN task[p].caches :
              a # b => task[p].caches[a].id # task[p].caches[b].id)
    /\ [][\A p \in Procs :
             LET t == task[p]
                 u == task'[p]
                 LoopPcs == {"unlink", "set"}
                 \* what is left of the loop: two awaits per row
                 LoopLeft(x) == 2 * Len(x.caches) - (IF x.pc = "set" THEN 1 ELSE 0)
                 \* the step is done with the row at the head of the list
                 RowDone == t.pc \in LoopPcs /\ u.caches = Tail(t.caches)
             IN /\ (t.pc \in SweepPcs /\ u.pc = "catch") => (t.pc = "list" /\ cacheTable' = cacheTable)
                /\ (t.pc \in LoopPcs /\ u # t)
                   => /\ u.pc \in {"unlink", "set", "download"}
                      /\ u.pc \in LoopPcs => LoopLeft(u) < LoopLeft(t)
                      /\ u.pc = "download"
                         => (u.caches = <<>> \/ u.currentSize - u.freedSpace + u.size <= cacheMaxSize)
                      /\ u.caches = t.caches \/ RowDone
                      /\ \A i \in Ids \ {Head(t.caches).id} : cacheTable'[i] = cacheTable[i]
                /\ (RowDone /\ u.evicted = t.evicted)
                   => /\ cacheTable' = cacheTable
                      /\ u.freedSpace = t.freedSpace
                      /\ u.sweep = "failed"
                /\ (RowDone /\ u.evicted # t.evicted)
                   => /\ u.evicted = Append(t.evicted, Head(t.caches))
                      /\ ~cacheTable'[Head(t.caches).id].cached
                      /\ u.freedSpace = t.freedSpace + Head(t.caches).fileSize]_vars

\* a sweep over two rows: the first could not be deleted and is still cached,
\* the second was evicted after it, and the sweep has returned
C25_Witness ==
    \E p \in Procs :
        /\ task[p].pc = "download"
        /\ task[p].sweep = "failed"
        /\ Len(task[p].evicted) = 1
        /\ \E i \in CachedIds(cacheTable) : cacheTable[i].cacheTime < task[p].evicted[1].cacheTime

\* C26 as stated: cleanOldCache evicts no more than needed. A call that finds
\* the cached total plus the incoming size within the budget returns at once. A
\* step of the loop deletes a blob or clears a row only while the sizes of the
\* rows cached at that moment plus the incoming size exceed cacheMaxSize.
C26_EvictsOnlyWhenOver ==
    [][\A p \in Procs :
          LET t == task[p] IN
          /\ (t.pc = "total" /\ task'[p] # t /\ TotalSize(cacheTable) + t.size <= cacheMaxSize)
             => (task'[p].pc = "download" /\ UNCHANGED <<cacheTable, blobs>>)
          /\ (t.pc \in {"unlink", "set"} /\ (cacheTable' # cacheTable \/ blobs' # blobs))
             => TotalSize(cacheTable) + t.size > cacheMaxSize]_vars

\* C26: cleanOldCache evicts no more than its own account asks for. A call that
\* finds the cached total plus the incoming size within the budget returns at
\* once, and the loop is entered only when the total as read (0 when the read
\* failed) plus the incoming size exceeds it. The loop goes on to a row, deletes a blob or clears a row only while the total read on entry, less
\* what this call has freed, plus the incoming size exceeds cacheMaxSize.
C26_EvictsByOwnAccount ==
    [][\A p \in Procs :
          LET t == task[p]
              u == task'[p]
          IN /\ (t.pc = "total" /\ u # t /\ TotalSize(cacheTable) + t.size <= cacheMaxSize)
                => (u.pc = "download" /\ UNCHANGED <<cacheTable, blobs>>)
             /\ (t.pc = "total" /\ u.pc = "list")
                => /\ u.currentSize \in {TotalSize(cacheTable), 0}
                   /\ u.currentSize + u.size > cacheMaxSize
             /\ (t.pc \in {"list", "unlink", "set"} /\ u.pc = "unlink")
                => u.currentSize - u.freedSpace + u.size > cacheMaxSize
             /\ (t.pc \in {"unlink", "set"} /\ (cacheTable' # cacheTable \/ blobs' # blobs))
                => t.currentSize - t.freedSpace + t.size > cacheMaxSize]_vars

\* a sweep has evicted one row and stopped there, its account within the budget
C26_Witness ==
    \E p \in Procs :
        /\ task[p].pc = "download"
        /\ task[p].sweep = "swept"
        /\ Len(task[p].evicted) = 1
        /\ task[p].caches # <<>>
        /\ task[p].currentSize - task[p].freedSpace + task[p].size <= cacheMaxSize

C28_FailedDownloadIsFatal ==
    [][\A p \in Procs :
          LET t == task[p]
              u == task'[p]
          IN /\ (t.pc \in {"download", "commit"} /\ u.pc = "catch")
                => /\ cacheTable' = cacheTable
                   /\ cacheTable'[t.song].cached => cacheTable[t.song].cached
                   /\ t.pc = "commit" => blobs' = blobs
                   /\ lastServed' = lastServed
                   /\ \A q \in Procs \ {p} : task'[q] = task[q]
             /\ (t.pc \in {"download", "commit"} /\ u # t) => u.pc \in {"commit", "sendNew", "catch"}
             /\ (t.pc = "catch" /\ u # t)
                => /\ u.pc = "idle"
                   /\ last'.outcome = "error"
                   /\ t.song \notin downloadLocks'
                   /\ UNCHANGED <<cacheTable, blobs, lastServed>>
                   /\ \A q \in Procs \ {p} : task'[q] = task[q]]_vars

\* the only command so far has ended with 'download-error' after its blob was
\* written and the row write failed: no row, no lock
C28_Witness ==
    /\ last.op = "ended"
    /\ last.outcome = "error"
    /\ last.held
    /\ issued = 1
    /\ last.song \in blobs
    /\ ~cacheTable[last.song].exists
    /\ downloadLocks = {}

\* C29: the cleanup of rateLimitMap changes no decision of the limiter. Every
\* command is let through or held back as checkRateLimit would decide on the
\* map no cleanup ever touched (each key at the time of its last accepted
\* command), and a cleanup deletes only entries older than 10 times
\* rateLimitInterval.
C29_SweepKeepsDecisions ==
    [][LET Unswept == [c \in LimiterKeys |->
                         IF lastAccepted[c] = -1 THEN 0 ELSE Epoch + lastAccepted[c]]
           Accepts(k) == ~TooSoon(DateNow, Unswept[LimiterKey(k)])
       IN /\ \A p \in Procs :
                (Free(p) /\ task'[p].pc = "search") => Accepts(task'[p].key)
          /\ last'.op = "limited" => ~Accepts(last'.key)
          /\ \A k \in Keys : CheckRateLimit(k) <=> Accepts(k)
          /\ \A c \in LimiterKeys :
                (rateLimitMap[c] # 0 /\ rateLimitMap'[c] = 0)
                => DateNow - rateLimitMap[c] > 10 * rateLimitInterval]_vars

\* two channels were stamped at the start; a cleanup has deleted the entry of
\* channel 2, and a third command, of channel 1, has been decided after it
C29_Witness ==
    /\ ~config.rateLimitGlobal
    /\ issued = 3
    /\ lastAccepted[2] = 0
    /\ rateLimitMap[2] = 0
    /\ lastAccepted[1] = now
    /\ rateLimitMap[1] = DateNow
    /\ now > 10 * rateLimitInterval

\* C30: no session stays in the registry forever. Every session in
\* searchSessions has its own timer pending, and (the clock running, due timers
\* firing) each session, told from its successors by its timer, is at some
\* later time no longer the one registered under its key: a reply selected
\* from it or cancelled it, a timer expired it, a later command's session took
\* its place, or dispose cleared the registry.
C30_SessionLeaves ==
    /\ [](\A k \in Keys :
             searchSessions[k] # NoSession
             => \E t \in timers : t.id = searchSessions[k].timeout /\ t.key = k)
    /\ \A k \in Keys, i \in TimerIds :
          (searchSessions[k] # NoSession /\ searchSessions[k].timeout = i)
          ~> (searchSessions[k] = NoSession \/ searchSessions[k].timeout # i)

\* a second command's session has taken the place of the first, whose timer is
\* still pending beside the new one
C30_Witness ==
    /\ last.op = "opened"
    /\ issued = 2
    /\ searchSessions[last.key] # NoSession
    /\ \E t, u \in timers :
          /\ t.key = last.key /\ u.key = last.key
          /\ t.id = searchSessions[last.key].timeout
          /\ u.id # t.id

\* C31: a session starts at most one acquire. A handleSongRequest is started in
\* a free slot only by a reply that finds a session of its sender registered,
\* and the same step (the middleware has no await before line 331) removes that
\* session with its timer and starts exactly one task, for a candidate of that
\* session; a reply of a requester with no session registered, such as the
\* second of two in-range replies, is passed on and starts nothing.
C31_OneFetchPerSession ==
    [][/\ \A p \in Procs :
             (Free(p) /\ task'[p].pc # "idle" /\ task'[p].pc # "search")
             => LET k == task'[p].key
                    session == searchSessions[k]
                IN /\ last'.op = "selected"
                   /\ last'.key = k
                   /\ session # NoSession
                   /\ \E n \in DOMAIN session.results :
                         task'[p] = Dispatch(k, session.results[n])
                   /\ searchSessions'[k] = NoSession
                   /\ \A t \in timers' : t.id # session.timeout
                   /\ \A q \in Procs \ {p} : task'[q] = task[q]
       /\ \A k \in Keys :
             (last'.op \in {"next", "cancelled", "selected"} /\ last'.key = k
                 /\ searchSessions[k] = NoSession)
             => /\ last'.op = "next"
                /\ UNCHANGED <<task, searchSessions, timers>>]_vars

\* the only command found two candidates; a reply was consumed (the task was
\* started by the middleware, so it carries no result list) and its acquire is
\* suspended at its first await when a "2" of the same requester is passed on
C31_Witness ==
    /\ last.op = "next"
    /\ last.input = <<"2">>
    /\ issued = 1
    /\ searchSessions[last.key] = NoSession
    /\ timers = {}
    /\ \E p \in Procs :
          /\ task[p].pc = "lookup"
          /\ task[p].key = last.key
          /\ task[p].results = <<>>
          /\ \A q \in Procs \ {p} : Free(q)

\* C32: the blob of a verified hit outlives every sweep. While an acquire is
\* between the fs.access of line 348 that found its blob and the end of its
\* sendCachedSong, no fs.unlink of another acquire's cleanOldCache (line 229)
\* removes that blob.
C32_VerifiedHitKeepsBlob ==
    [][\A p, q \in Procs :
          (/\ p # q
           /\ task[p].pc = "sendCached"
           /\ task[p].song \in blobs
           /\ task[q].pc = "unlink"
           /\ task'[q] # task[q])
          => task[p].song \in blobs']_vars

====
